---- MODULE Spec2Model ----
(***************************************************************************)
(* Playlist Buddy (src/spotify_app.py): the library fetchers, the          *)
(* deduplicator, the two module-level caches and the Flask handlers that   *)
(* read and write them, one request in flight per browser session and      *)
(* several sessions served concurrently.                                   *)
(***************************************************************************)
EXTENDS Integers, Sequences, FiniteSets, TLC

(***************************************************************************)
(* Bounds of the model.                                                    *)
(***************************************************************************)
\* browser sessions served concurrently
NumSessions == 2
\* remote calls that may fail during one full fetch
MaxFailures == 1
\* longest track list handed to deduplicate_songs in SpecMerge
MaxLen == 2
\* longest raw genre string handed to classify in SpecClassify
MaxStr == 4
\* longest URI list handed to add_items_to_playlist_direct in SpecAddItems
MaxUris == 201

Sessions == 1..NumSessions
Users == {"u1", "u2"}
\* session.get('spotify_user_id', '') and a session without a token
NoUser == ""

(***************************************************************************)
(* Raw records of the remote API.  A saved-item / playlist-item record     *)
(* carries its track payload under `key`; the payload has an id ("" when   *)
(* missing) and is well-formed (wf) when lines 132-135 can read it: 'uri'  *)
(* and 'name' are there, and 'artists' and 'album' are either missing or   *)
(* empty (the song then gets 'Unknown') or carry a 'name'.  A playlist     *)
(* record carries its track count under `countKey`.                        *)
(***************************************************************************)
T(id) == [key |-> "track", id |-> id, wf |-> TRUE]
NoId == [key |-> "track", id |-> "", wf |-> TRUE]
NoTrack == [key |-> "none", id |-> "", wf |-> TRUE]
\* a payload with an id and without 'uri': line 132 raises KeyError
Bad(id) == [key |-> "track", id |-> id, wf |-> FALSE]
Alt(id) == [key |-> "item", id |-> id, wf |-> TRUE]

P(id, name, total) == [null |-> FALSE, id |-> id, name |-> name, countKey |-> "tracks", total |-> total]
PAlt(id, name, total) == [null |-> FALSE, id |-> id, name |-> name, countKey |-> "items", total |-> total]
PNull == [null |-> TRUE, id |-> "", name |-> "", countKey |-> "none", total |-> 0]

PlaylistIds == {"p1", "p2", "p3"}

\* one remote call: a page of saved tracks, of the playlist listing, or of
\* one playlist's items
Call(api, pid, page) == [api |-> api, pid |-> pid, page |-> page]

(***************************************************************************)
(* fetch_all_liked_songs / fetch_all_playlist_songs                        *)
(***************************************************************************)
\* Skipped without the look at the id
SkippedByTrackOnly(item) == item.key # "track"

\* line 128 / 181: `if not track or not track.get('id'): continue`
Skipped(item) == item.key # "track" \/ item.id = ""

\* lines 130-137 / 183-190: the song, kept as its id and its source; its
\* uri, name, artist and album (with 'Unknown' for missing artists or album)
\* are read by no handler modelled here
Song(item, source) == [id |-> item.id, source |-> source]

\* the for loop over one page's items (lines 126-137, 179-190): a record
\* that is skipped adds nothing, a record whose fields cannot be read raises
\* and leaves what was appended before it
RECURSIVE ScanItems(_, _)
ScanItems(items, source) ==
    IF items = <<>> THEN [songs |-> <<>>, err |-> "none"]
    ELSE LET it == Head(items) IN
         IF Skipped(it) THEN ScanItems(Tail(items), source)
         ELSE IF ~it.wf THEN [songs |-> <<>>, err |-> "record"]
         ELSE LET r == ScanItems(Tail(items), source) IN
              [songs |-> <<Song(it, source)>> \o r.songs, err |-> r.err]

\* the while loop over pages (lines 124-141, 174-194), from page k on: the
\* call for page k may fail; `next` is followed while it is present
RECURSIVE FetchPages(_, _, _, _, _, _)
FetchPages(pages, k, api, pid, source, F) ==
    IF Call(api, pid, k) \in F THEN [songs |-> <<>>, err |-> "remote"]
    ELSE LET r == ScanItems(pages[k], source) IN
         IF r.err # "none" THEN r
         ELSE IF k < Len(pages)
              THEN LET rest == FetchPages(pages, k + 1, api, pid, source, F) IN
                   [songs |-> r.songs \o rest.songs, err |-> rest.err]
              ELSE r

\* lines 122-145, with the error the except clause swallowed
LikedRun(lib, F) == FetchPages(lib.liked, 1, "liked", "", <<"liked">>, F)

\* lines 116-145: the except clause logs and the list is returned, whatever
\* happened; nothing is raised to the caller
fetch_all_liked_songs(lib, F) == [songs |-> LikedRun(lib, F).songs, raised |-> "none"]

\* line 164: item.get('tracks', {}).get('total', 0)
TrackCount(pl) == IF pl.countKey = "tracks" THEN pl.total ELSE 0

\* line 189: f'playlist:{playlist_name}'
PlaylistSource(pl) == <<"playlist", pl.name>>

\* lines 166-169
Meta(pl) == [name |-> pl.name, tracks |-> TrackCount(pl)]

\* CrawlPlaylist without its try/except: the failure leaves the playlist loop
CrawlPlaylistUncaught(lib, pl, F) ==
    LET r == FetchPages(lib.items[pl.id], 1, "items", pl.id, <<"playlist", pl.name>>, F)
    IN [songs |-> r.songs, err |-> r.err]

\* lines 173-196: one playlist's items; what was appended before a failure
\* stays in all_songs and the inner except clause swallows the error
CrawlPlaylist(lib, pl, F) ==
    LET r == FetchPages(lib.items[pl.id], 1, "items", pl.id, PlaylistSource(pl), F)
    IN [songs |-> r.songs, err |-> "none"]

\* the for loop over one listing page (lines 159-196)
RECURSIVE ScanPlaylists(_, _, _)
ScanPlaylists(lib, pls, F) ==
    IF pls = <<>> THEN [songs |-> <<>>, meta |-> <<>>, err |-> "none"]
    ELSE LET pl == Head(pls) IN
         IF pl.null THEN ScanPlaylists(lib, Tail(pls), F)
         ELSE LET own == IF pl.id # "" /\ TrackCount(pl) > 0
                         THEN CrawlPlaylist(lib, pl, F)
                         ELSE [songs |-> <<>>, err |-> "none"]
              IN IF own.err # "none"
                 THEN [songs |-> own.songs, meta |-> <<Meta(pl)>>, err |-> own.err]
                 ELSE LET r == ScanPlaylists(lib, Tail(pls), F) IN
                      [songs |-> own.songs \o r.songs,
                       meta |-> <<Meta(pl)>> \o r.meta, err |-> r.err]

\* the while loop over listing pages (lines 157-201), from page k on
RECURSIVE ListPages(_, _, _)
ListPages(lib, k, F) ==
    IF Call("playlists", "", k) \in F
    THEN [songs |-> <<>>, meta |-> <<>>, err |-> "remote"]
    ELSE LET r == ScanPlaylists(lib, lib.playlists[k], F) IN
         IF r.err # "none" THEN r
         ELSE IF k < Len(lib.playlists)
              THEN LET rest == ListPages(lib, k + 1, F) IN
                   [songs |-> r.songs \o rest.songs,
                    meta |-> r.meta \o rest.meta, err |-> rest.err]
              ELSE r

\* lines 153-206, with the error the outer except clause swallowed
PlaylistRun(lib, F) == ListPages(lib, 1, F)

\* lines 148-206: the except clause logs and (all_songs, playlists_meta) is
\* returned, whatever happened; nothing is raised to the caller
fetch_all_playlist_songs(lib, F) ==
    [songs |-> PlaylistRun(lib, F).songs, meta |-> PlaylistRun(lib, F).meta, raised |-> "none"]

(***************************************************************************)
(* fetch_top_artists / fetch_top_tracks                                    *)
(***************************************************************************)
\* raw records of the top lists: an artist (id "" when missing, null when
\* the item is no object), and a track (id "" when missing or no object,
\* artist "" when it has no artists, wf when 'name' can be read)
A(id, name, genres) == [null |-> FALSE, id |-> id, name |-> name, genres |-> genres]
ANull == [null |-> TRUE, id |-> "", name |-> "", genres |-> <<>>]
TT(id, name, artist) == [id |-> id, name |-> name, artist |-> artist, wf |-> TRUE]
TTBad(id) == [id |-> id, name |-> "", artist |-> "", wf |-> FALSE]

\* line 212
TimeRanges == <<"short_term", "medium_term", "long_term">>

\* lines 216-226: the for loop over one time range's items, from item i on;
\* an item without an id or with an id already kept is passed over, an item
\* that is no object raises and ends the range with what was kept before
RECURSIVE ScanArtists(_, _, _, _)
ScanArtists(items, i, artists, time_range) ==
    IF i > Len(items) THEN artists
    ELSE LET artist == items[i] IN
         IF artist.null THEN artists
         ELSE IF artist.id = "" \/ \E k \in 1..Len(artists) : artists[k].id = artist.id
         THEN ScanArtists(items, i + 1, artists, time_range)
         ELSE ScanArtists(items, i + 1,
                          Append(artists, [id |-> artist.id, name |-> artist.name,
                                           genres |-> artist.genres, rank |-> i - 1,
                                           time_range |-> time_range]),
                          time_range)

\* lines 212-228: the time ranges in turn, from range k on; a failing call
\* is logged and the next range is asked for
RECURSIVE TopArtistRanges(_, _, _, _)
TopArtistRanges(lib, F, k, artists) ==
    IF k > Len(TimeRanges) THEN artists
    ELSE IF Call("top_artists", TimeRanges[k], 1) \in F
         THEN TopArtistRanges(lib, F, k + 1, artists)
         ELSE TopArtistRanges(lib, F, k + 1,
                              ScanArtists(lib.top_artists[TimeRanges[k]], 1, artists,
                                          TimeRanges[k]))

\* lines 209-230: list(artists.values()), in the order the ids were kept;
\* 'popularity' is stored too and read by nothing
fetch_top_artists(lib, F) ==
    LET artists == TopArtistRanges(lib, F, 1, <<>>) IN
    [k \in 1..Len(artists) |->
       [name |-> artists[k].name, genres |-> artists[k].genres,
        rank |-> artists[k].rank, time_range |-> artists[k].time_range]]

\* lines 238-244: the for loop over the items; a track without 'name'
\* raises and ends the loop with what was appended before
RECURSIVE ScanTopTracks(_)
ScanTopTracks(items) ==
    IF items = <<>> THEN <<>>
    ELSE LET track == Head(items) IN
         IF track.id = "" THEN ScanTopTracks(Tail(items))
         ELSE IF ~track.wf THEN <<>>
         ELSE <<[name |-> track.name,
                 artist |-> IF track.artist = "" THEN "Unknown" ELSE track.artist]>>
              \o ScanTopTracks(Tail(items))

\* lines 233-247
fetch_top_tracks(lib, F) ==
    IF Call("top_tracks", "", 1) \in F THEN <<>> ELSE ScanTopTracks(lib.top_tracks)

(***************************************************************************)
(* deduplicate_songs, summarize_library                                    *)
(***************************************************************************)
\* UniqueFrom without line 259: no id is ever recorded as seen
UniqueFromForgetful(songs, seen_ids) == songs

\* lines 257-260: the loop over liked_songs + playlist_songs
RECURSIVE UniqueFrom(_, _)
UniqueFrom(songs, seen_ids) ==
    IF songs = <<>> THEN <<>>
    ELSE IF Head(songs).id \notin seen_ids
         THEN <<Head(songs)>> \o UniqueFrom(Tail(songs), seen_ids \cup {Head(songs).id})
         ELSE UniqueFrom(Tail(songs), seen_ids)

\* deduplicate_songs with the two lists taken in the other order
DedupPlaylistsFirst(liked_songs, playlist_songs) ==
    UniqueFrom(playlist_songs \o liked_songs, {})

\* deduplicate_songs keeping the last record of each id instead of the first
RECURSIVE UniqueKeepLast(_)
UniqueKeepLast(songs) ==
    IF songs = <<>> THEN <<>>
    ELSE IF \E i \in 2..Len(songs) : songs[i].id = Head(songs).id
         THEN UniqueKeepLast(Tail(songs))
         ELSE <<Head(songs)>> \o UniqueKeepLast(Tail(songs))

DedupKeepLast(liked_songs, playlist_songs) == UniqueKeepLast(liked_songs \o playlist_songs)

\* deduplicate_songs with a seen set of its own for each of the two lists
DedupEachListAlone(liked_songs, playlist_songs) ==
    UniqueFrom(liked_songs, {}) \o UniqueFrom(playlist_songs, {})

\* lines 250-262
deduplicate_songs(liked_songs, playlist_songs) ==
    UniqueFrom(liked_songs \o playlist_songs, {})

\* sorted(seq, key=...): the members of seq by rising key, keys[i] being the
\* key of seq[i]; members that tie stay in their order in seq.  With
\* reverse=True the keys are the negated ones: ties keep their order too.
Sorted(seq, keys) ==
    LET n == Len(seq)
        Ahead(i) == {j \in 1..n : keys[j] < keys[i] \/ (keys[j] = keys[i] /\ j < i)}
    IN [p \in 1..n |-> seq[CHOOSE i \in 1..n : Cardinality(Ahead(i)) = p - 1]]

\* seq[:n]
FirstN(seq, n) == SubSeq(seq, 1, IF n < Len(seq) THEN n ELSE Len(seq))

\* the members of all the sequences of seqs, in order
RECURSIVE Flatten(_)
Flatten(seqs) == IF seqs = <<>> THEN <<>> ELSE Head(seqs) \o Flatten(Tail(seqs))

\* how many artists, genres, top tracks and playlists the text lists
MostListened == 25
MostCommonGenres == 15
MostPlayed == 25
PlaylistsListed == 20

\* Line 294 computes round(c / total * 100) in double-precision floating
\* point: c / total is rounded to a double of 53 significant bits, its product
\* with 100 is rounded to a double again, and round() takes the whole number
\* nearest to that double, a half going to the even one.  The two roundings
\* move the value by less than 2^-46, and a share that is not halfway between
\* two whole numbers is at least 1 / (2 * total) away from halfway, so such a
\* share rounds as the exact quotient does.  A share that is exactly halfway
\* (m + 1/2) is decided by the two roundings, which the operators below
\* compute from remainders of the long division of c by total.

\* (x * 2^n) % total
RECURSIVE DoubledMod(_, _, _)
DoubledMod(x, n, total) ==
    IF n = 0 THEN x % total ELSE DoubledMod((2 * x) % total, n - 1, total)

\* the least j with c * 2^j >= total: c / total lies in [2^-j, 2^(1-j))
RECURSIVE BinadeBelowOne(_, _)
BinadeBelowOne(c, total) ==
    IF c >= total THEN 0 ELSE 1 + BinadeBelowOne(2 * c, total)

\* the whole part of the base-2 logarithm of n >= 1
RECURSIVE Log2(_)
Log2(n) == IF n < 2 THEN 0 ELSE 1 + Log2(n \div 2)

RECURSIVE Pow2(_)
Pow2(n) == IF n = 0 THEN 1 ELSE 2 * Pow2(n - 1)

\* Where the double c / total * 100 lies when the exact share is m + 1/2:
\* -1 below the half, 0 on it, 1 above it.  The double quotient keeps
\* k = 52 + j binary places; rem is what the long division leaves after them
\* and the quotient is rounded up when rem is more than half of total (or
\* half of it with an odd last place), so its error is near / (total * 2^k).
\* A hundred times that error moves the product off m + 1/2 when it is more
\* than half a unit in the last place of the doubles on that side of
\* m + 1/2; at exactly half a unit the product stays, m + 1/2 being the
\* double with the even last place.
FloatSide(c, total, m) ==
    LET j == BinadeBelowOne(c, total)
        k == 52 + j
        rem == DoubledMod(c, k, total)
        last == (2 * DoubledMod(c, k - 1, total)) \div total
        up == 2 * rem > total \/ (2 * rem = total /\ last = 1)
        near == IF up THEN total - rem ELSE rem
        binade == Log2(2 * m + 1) - 1
        \* below 1/2 the doubles are twice as dense as above it
        moved == IF m = 0 /\ ~up THEN 400 * near ELSE 200 * near
    IN IF rem = 0 \/ moved <= total * Pow2(binade + j) THEN 0
       ELSE IF up THEN 1 ELSE 0 - 1

\* round(c / total * 100) for 1 <= c <= total
Percent(c, total) ==
    LET q == (c * 100) \div total
        r == (c * 100) % total
        side == FloatSide(c, total, q)
    IN IF 2 * r # total THEN (IF 2 * r > total THEN q + 1 ELSE q)
       ELSE IF side < 0 THEN q
       ELSE IF side > 0 THEN q + 1
       ELSE IF q % 2 = 1 THEN q + 1 ELSE q

\* lines 289-294: Counter(all_genres).most_common(15) with each count as a
\* share of all genre entries; genres that tie stay in the order first seen
GenreBreakdown(top_artists) ==
    LET all_genres == Flatten([k \in 1..Len(top_artists) |-> top_artists[k].genres])
        total == Len(all_genres)
        firsts == {i \in 1..total : \A j \in 1..(i - 1) : all_genres[j] # all_genres[i]}
        genre_counts ==
            [n \in 1..Cardinality(firsts) |->
               LET i == CHOOSE i \in firsts : Cardinality({j \in firsts : j < i}) = n - 1
               IN [genre |-> all_genres[i],
                   count |-> Cardinality({j \in 1..total : all_genres[j] = all_genres[i]})]]
        top_g == FirstN(Sorted(genre_counts,
                               [n \in 1..Len(genre_counts) |-> 0 - genre_counts[n].count]),
                        MostCommonGenres)
    IN [k \in 1..Len(top_g) |->
          [genre |-> top_g[k].genre, percent |-> Percent(top_g[k].count, total)]]

\* lines 269-308: the summary text, kept as the facts it is rendered from:
\* the song count of its heading, the artists by rank, the genre shares,
\* the top tracks, the number of playlists and the playlists by size.  The
\* section that lists songs by artist is rendered from names the songs of
\* the model do not carry and is not kept.
summarize_library(all_songs, playlists_meta, top_artists, top_tracks) ==
    LET sorted_a == Sorted(top_artists, [k \in 1..Len(top_artists) |-> top_artists[k].rank])
        shown_a == FirstN(sorted_a, MostListened)
    IN [total |-> Len(all_songs),
        top_artists |-> [k \in 1..Len(shown_a) |-> shown_a[k].name],
        genres |-> GenreBreakdown(top_artists),
        top_tracks |-> FirstN(top_tracks, MostPlayed),
        playlist_count |-> Len(playlists_meta),
        playlists |-> FirstN(Sorted(playlists_meta,
                                    [k \in 1..Len(playlists_meta) |->
                                       0 - playlists_meta[k].tracks]),
                             PlaylistsListed)]

(***************************************************************************)
(* The remote libraries the model runs against.                            *)
(***************************************************************************)
\* saved tracks on two pages with records lacking a track or an id; the
\* track "a" is liked and sits in two playlists, "d" and "e" in two playlists
LibA ==
    [liked |-> << <<T("a"), NoId, T("b")>>, <<NoTrack, T("c")>> >>,
     playlists |-> << <<P("p1", "Mix", 2), PNull>>,
                      <<P("p2", "Gym", 3), P("p3", "Old", 1)>> >>,
     items |-> [pid \in PlaylistIds |->
                  CASE pid = "p1" -> << <<T("a"), T("d")>> >>
                    [] pid = "p2" -> << <<T("d")>>, <<T("a"), T("e")>> >>
                    [] OTHER -> << <<T("e"), NoId>> >>],
     top_artists |-> [short_term |-> <<A("x", "Xen", <<"pop", "k-pop">>), A("", "Nobody", <<"folk">>)>>,
                      medium_term |-> <<A("y", "Yol", <<"pop">>), A("x", "Xen", <<"rock">>)>>,
                      long_term |-> <<A("z", "Zed", <<>>), ANull, A("w", "Wim", <<"jazz">>)>>],
     top_tracks |-> <<TT("a", "Aria", "Xen"), TT("", "Ghost", "Xen"), TT("c", "Coda", "")>>]

\* a library on single pages: "a" is liked and sits in both playlists, one
\* saved record has no id, one playlist record has no track
LibU1 ==
    [liked |-> << <<NoId, T("a")>> >>,
     playlists |-> << <<P("p1", "Mix", 2), P("p2", "Gym", 2)>> >>,
     items |-> [pid \in PlaylistIds |->
                  CASE pid = "p1" -> << <<T("a"), T("b")>> >>
                    [] pid = "p2" -> << <<NoTrack, T("b"), T("a")>> >>
                    [] OTHER -> << <<>> >>],
     top_artists |-> [r \in {"short_term", "medium_term", "long_term"} |-> <<>>],
     top_tracks |-> <<>>]

\* an empty library: nothing saved, no playlist
LibU2 ==
    [liked |-> << <<>> >>,
     playlists |-> << <<>> >>,
     items |-> [pid \in PlaylistIds |-> << <<>> >>],
     top_artists |-> [r \in {"short_term", "medium_term", "long_term"} |-> <<>>],
     top_tracks |-> <<>>]

\* records that cannot be read, a track payload and a track count under the
\* alternate key, a playlist without an id
LibBad ==
    [liked |-> << <<T("a"), Bad("b"), T("c")>>, <<T("d")>> >>,
     playlists |-> << <<P("p1", "Mix", 3), P("p2", "Gym", 2)>>,
                      <<PAlt("p3", "New", 1), P("", "Ghost", 1)>> >>,
     items |-> [pid \in PlaylistIds |->
                  CASE pid = "p1" -> << <<T("a"), Bad("e"), T("f")>> >>
                    [] pid = "p2" -> << <<Alt("g"), T("d")>> >>
                    [] OTHER -> << <<T("h")>> >>],
     top_artists |-> [short_term |-> <<A("y", "Yol", <<"pop", "pop", "folk">>)>>,
                      medium_term |-> <<>>,
                      long_term |-> <<A("x", "Xen", <<"folk", "jazz">>)>>],
     top_tracks |-> <<TT("a", "Aria", "Xen"), TTBad("b"), TT("c", "Coda", "Yol")>>]

\* three pages of saved tracks, one playlist of three pages
LibLong ==
    [liked |-> << <<T("a")>>, <<T("b"), NoId>>, <<T("c")>> >>,
     playlists |-> << <<P("p1", "Mix", 3)>> >>,
     items |-> [pid \in PlaylistIds |->
                  IF pid = "p1" THEN << <<T("d")>>, <<T("a")>>, <<T("e")>> >> ELSE << <<>> >>],
     top_artists |-> [r \in {"short_term", "medium_term", "long_term"} |-> <<>>],
     top_tracks |-> <<TT("d", "Dawn", "Zed")>>]

\* a library whose one top artist carries 23 "pop" and 17 "rock" entries: the
\* exact shares are 57.5 and 42.5, the doubles 57.49999999999999 and 42.5
LibShares ==
    [liked |-> << <<T("a")>> >>,
     playlists |-> << <<P("p1", "Mix", 1)>> >>,
     items |-> [pid \in PlaylistIds |->
                  IF pid = "p1" THEN << <<T("b")>> >> ELSE << <<>> >>],
     top_artists |-> [short_term |-> <<A("x", "Xen", [i \in 1..40 |->
                                                       IF i <= 23 THEN "pop" ELSE "rock"])>>,
                      medium_term |-> <<>>,
                      long_term |-> <<>>],
     top_tracks |-> <<>>]

TestLibs == {LibA, LibU1, LibU2, LibLong, LibBad, LibShares}

\* what the remote API serves to the token of user u
Lib(u) == IF u = "u1" THEN LibU1 ELSE LibU2

\* the playlists of lib's listing
Listed(lib) ==
    UNION {{lib.playlists[k][i].id : i \in 1..Len(lib.playlists[k])} :
             k \in 1..Len(lib.playlists)} \cap PlaylistIds

\* every remote call a full fetch of lib can make
Calls(lib) ==
    {Call("liked", "", k) : k \in 1..Len(lib.liked)}
    \cup {Call("playlists", "", k) : k \in 1..Len(lib.playlists)}
    \cup UNION {{Call("items", pid, k) : k \in 1..Len(lib.items[pid])} : pid \in Listed(lib)}

\* the calls for the top lists (lines 214, 236)
TopCalls ==
    {Call("top_artists", TimeRanges[k], 1) : k \in 1..Len(TimeRanges)}
    \cup {Call("top_tracks", "", 1)}

\* the calls that fail during one full fetch
FailureSets(lib) == {F \in SUBSET (Calls(lib) \cup TopCalls) : Cardinality(F) <= MaxFailures}

\* lines 607-613 / 471-477: the full fetch.  raw and failed are kept for the
\* properties: the list the catalog was deduplicated from, and whether a
\* liked-songs or playlist-listing call failed.
FullFetch(lib, F) ==
    LET liked == fetch_all_liked_songs(lib, F).songs
        pl == fetch_all_playlist_songs(lib, F)
        top_a == fetch_top_artists(lib, F)
        top_t == fetch_top_tracks(lib, F)
        all_unique == deduplicate_songs(liked, pl.songs)
    IN [all_unique |-> all_unique,
        summary |-> summarize_library(all_unique, pl.meta, top_a, top_t),
        raw |-> liked \o pl.songs,
        failed |-> LikedRun(lib, F).err = "remote" \/ PlaylistRun(lib, F).err = "remote"]

\* what a full fetch with the token of user u can come to, over the calls
\* that may fail
FetchOutcomes == [u \in Users |-> {FullFetch(Lib(u), F) : F \in FailureSets(Lib(u))}]

(***************************************************************************)
(* State.                                                                  *)
(***************************************************************************)
VARIABLES
    library_cache,       \* line 35: user id -> summary
    full_library_cache,  \* line 36: user id -> deduplicated song list
    fetched,             \* history: user id -> the list its cached catalog was deduplicated from
    token,               \* per session: the user whose token the session holds, NoUser if none
    session_uid,         \* per session: session['spotify_user_id'], NoUser if unset
    pc,                  \* per session: where its request in flight stands
    loc,                 \* per session: the locals of its request in flight
    resp,                \* per session: the response on its way to the browser
    arg, out, phase      \* inputs, results and progress of a pure-function run

mainvars == <<library_cache, full_library_cache, fetched, token, session_uid, pc, loc, resp>>
funvars == <<arg, out, phase>>
vars == <<library_cache, full_library_cache, fetched, token, session_uid, pc, loc, resp, arg, out, phase>>

NoSummary ==
    [total |-> 0, top_artists |-> <<>>, genres |-> <<>>, top_tracks |-> <<>>,
     playlist_count |-> 0, playlists |-> <<>>]

LocIdle ==
    [user |-> NoUser, key |-> NoUser, mode |-> "", all_unique |-> <<>>,
     summary |-> NoSummary, raw |-> <<>>, failed |-> FALSE, ready |-> FALSE]

NoResp == [op |-> "", code |-> 0, status |-> "", total |-> 0]

\* cache[k] = v
Put(cache, k, v) == [x \in DOMAIN cache \cup {k} |-> IF x = k THEN v ELSE cache[x]]

\* cache.pop(k, None)
Pop(cache, k) == [x \in DOMAIN cache \ {k} |-> cache[x]]

\* lines 464, 599: user_id in library_cache and user_id in full_library_cache
InBoth(u) == u \in DOMAIN library_cache /\ u \in DOMAIN full_library_cache

\* lines 633, 657: the truth value of cache.get(user_id); a summary is never
\* the empty string, a song list may be empty
Truthy(mode, k) ==
    IF mode = "chat" THEN k \in DOMAIN library_cache
    ELSE k \in DOMAIN full_library_cache /\ full_library_cache[k] # <<>>

\* lines 35-36: {}
EmptyCache == [x \in {} |-> <<>>]

MainInit ==
    /\ library_cache = EmptyCache
    /\ full_library_cache = EmptyCache
    /\ fetched = [u \in Users |-> <<>>]
    /\ token = [s \in Sessions |-> NoUser]
    /\ session_uid = [s \in Sessions |-> NoUser]
    /\ pc = [s \in Sessions |-> "idle"]
    /\ loc = [s \in Sessions |-> LocIdle]
    /\ resp = [s \in Sessions |-> NoResp]

FunIdle == arg = <<>> /\ out = <<>> /\ phase = "off"

Init == MainInit /\ FunIdle

\* the handler returns: its response leaves for the browser
Respond(s, r) ==
    /\ pc' = [pc EXCEPT ![s] = "responded"]
    /\ loc' = [loc EXCEPT ![s] = LocIdle]
    /\ resp' = [resp EXCEPT ![s] = r]

Goto(s, label, l) ==
    /\ pc' = [pc EXCEPT ![s] = label]
    /\ loc' = [loc EXCEPT ![s] = l]
    /\ resp' = resp

(***************************************************************************)
(* /callback, and the browser taking a response                            *)
(***************************************************************************)
\* a callback that exchanges the code whatever the session holds: a session
\* that holds a token has it replaced by the token of the user who signed in
callback_exchanging(s, u) ==
    /\ pc[s] = "idle"
    /\ token' = [token EXCEPT ![s] = u]
    /\ UNCHANGED <<library_cache, full_library_cache, fetched, session_uid, pc, loc, resp, arg, out, phase>>

\* lines 561-568: sp_oauth.get_access_token(code) looks into the session
\* first: a session that holds a valid token keeps it and the code is not
\* exchanged; only a session without a token stores the token of the user
\* who signed in.  session['spotify_user_id'] is left as it was.
callback(s, u) ==
    /\ pc[s] = "idle"
    /\ token' = [token EXCEPT ![s] = IF token[s] = NoUser THEN u ELSE token[s]]
    /\ UNCHANGED <<library_cache, full_library_cache, fetched, session_uid, pc, loc, resp, arg, out, phase>>

Receive(s) ==
    /\ pc[s] = "responded"
    /\ pc' = [pc EXCEPT ![s] = "idle"]
    /\ resp' = [resp EXCEPT ![s] = NoResp]
    /\ UNCHANGED <<library_cache, full_library_cache, fetched, token, session_uid, loc, arg, out, phase>>

(***************************************************************************)
(* /api/load-library                                                       *)
(***************************************************************************)
\* lines 587-604: authentication, current_user(), the cached answer
LoadStart(s) ==
    /\ pc[s] = "idle"
    /\ UNCHANGED <<library_cache, full_library_cache, fetched, token, session_uid, arg, out, phase>>
    /\ IF token[s] = NoUser
       THEN Respond(s, [NoResp EXCEPT !.op = "load", !.code = 401, !.status = "error"])
       ELSE \/ Respond(s, [NoResp EXCEPT !.op = "load", !.code = 500, !.status = "error"])
            \/ IF InBoth(token[s])
               THEN Respond(s, [NoResp EXCEPT !.op = "load", !.code = 200, !.status = "ready",
                                              !.total = Len(full_library_cache[token[s]])])
               ELSE Goto(s, "load_fetch", [LocIdle EXCEPT !.user = token[s]])

\* lines 607-615: the fetch, which touches only the request's locals and
\* the remote library, and the first cache write
LoadFetch(s) ==
    /\ pc[s] = "load_fetch"
    /\ \E r \in FetchOutcomes[loc[s].user] :
         /\ library_cache' = Put(library_cache, loc[s].user, r.summary)
         /\ Goto(s, "load_write_full",
                 [loc[s] EXCEPT !.all_unique = r.all_unique, !.summary = r.summary,
                                !.raw = r.raw, !.failed = r.failed])
    /\ UNCHANGED <<full_library_cache, fetched, token, session_uid, arg, out, phase>>

\* lines 616-623
LoadWriteFull(s) ==
    /\ pc[s] = "load_write_full"
    /\ full_library_cache' = Put(full_library_cache, loc[s].user, loc[s].all_unique)
    /\ fetched' = [fetched EXCEPT ![loc[s].user] = loc[s].raw]
    /\ session_uid' = [session_uid EXCEPT ![s] = loc[s].user]
    /\ Respond(s, [NoResp EXCEPT !.op = "load", !.code = 200, !.status = "ready",
                                 !.total = Len(loc[s].all_unique)])
    /\ UNCHANGED <<library_cache, token, arg, out, phase>>

(***************************************************************************)
(* /api/chat and /api/creator-chat, with _ensure_library_loaded            *)
(***************************************************************************)
\* ChatStart without lines 629-630 / 653-654: no look at the token
ChatStartNoAuth(s, mode) ==
    /\ pc[s] = "idle"
    /\ UNCHANGED <<library_cache, full_library_cache, fetched, token, session_uid, arg, out, phase>>
    /\ LET l == [LocIdle EXCEPT !.key = session_uid[s], !.mode = mode] IN
       IF Truthy(mode, session_uid[s])
       THEN Goto(s, "chat_reply", l)
       ELSE Goto(s, "ensure", [l EXCEPT !.ready = InBoth(token[s])])

\* lines 629-634 / 653-658: authentication, the session's user id, the first
\* look at the cache.  Until the rebuild fetches, ready records whether the
\* signed-in user had an entry in both caches when the request arrived.
ChatStart(s, mode) ==
    /\ pc[s] = "idle"
    /\ UNCHANGED <<library_cache, full_library_cache, fetched, token, session_uid, arg, out, phase>>
    /\ IF token[s] = NoUser
       THEN Respond(s, [NoResp EXCEPT !.op = mode, !.code = 401, !.status = "error"])
       ELSE LET l == [LocIdle EXCEPT !.key = session_uid[s], !.mode = mode] IN
            IF Truthy(mode, session_uid[s])
            THEN Goto(s, "chat_reply", l)
            ELSE Goto(s, "ensure", [l EXCEPT !.ready = InBoth(token[s])])

\* lines 464-469, 484-486 and 635 / 659: the check on the id that was passed
\* in, then current_user() with the session's token
EnsureCheck(s) ==
    /\ pc[s] = "ensure"
    /\ UNCHANGED <<library_cache, full_library_cache, fetched, token, session_uid, arg, out, phase>>
    /\ IF InBoth(loc[s].key)
       THEN Goto(s, "chat_reply", [loc[s] EXCEPT !.ready = FALSE])
       ELSE \/ Respond(s, [NoResp EXCEPT !.op = loc[s].mode, !.code = 400, !.status = "error"])
            \/ Goto(s, "ens_fetch", [loc[s] EXCEPT !.user = token[s]])

\* lines 471-479: the fetch and the first cache write
EnsureFetch(s) ==
    /\ pc[s] = "ens_fetch"
    /\ \E r \in FetchOutcomes[loc[s].user] :
         /\ library_cache' = Put(library_cache, loc[s].user, r.summary)
         /\ Goto(s, "ens_write_full",
                 [loc[s] EXCEPT !.all_unique = r.all_unique, !.summary = r.summary,
                                !.raw = r.raw, !.failed = r.failed, !.ready = FALSE])
    /\ UNCHANGED <<full_library_cache, fetched, token, session_uid, arg, out, phase>>

\* lines 480-483; the locals of _ensure_library_loaded end with it
EnsureWriteFull(s) ==
    /\ pc[s] = "ens_write_full"
    /\ full_library_cache' = Put(full_library_cache, loc[s].user, loc[s].all_unique)
    /\ fetched' = [fetched EXCEPT ![loc[s].user] = loc[s].raw]
    /\ session_uid' = [session_uid EXCEPT ![s] = loc[s].user]
    /\ Goto(s, "chat_reply", [LocIdle EXCEPT !.key = loc[s].key, !.mode = loc[s].mode])
    /\ UNCHANGED <<library_cache, token, arg, out, phase>>

\* lines 637-644 / 661-670: the request body (400 when it is empty or has no
\* 'messages'; data['messages'][-20:] raises, outside any try, when
\* 'messages' cannot be sliced: 500), then the cache entry under the id read
\* from the session at the start; a missing key raises (500)
ChatReply(s) ==
    /\ pc[s] = "chat_reply"
    /\ UNCHANGED <<library_cache, full_library_cache, fetched, token, session_uid, arg, out, phase>>
    /\ LET base == [NoResp EXCEPT !.op = loc[s].mode]
           k == loc[s].key
       IN \/ Respond(s, [base EXCEPT !.code = 400, !.status = "error"])
          \/ Respond(s, [base EXCEPT !.code = 500, !.status = "error"])
          \/ IF loc[s].mode = "chat"
             THEN IF k \in DOMAIN library_cache
                  THEN Respond(s, [base EXCEPT !.code = 200, !.status = "ok",
                                               !.total = library_cache[k].total])
                  ELSE Respond(s, [base EXCEPT !.code = 500, !.status = "error"])
             ELSE IF k \in DOMAIN full_library_cache
                  THEN Respond(s, [base EXCEPT !.code = 200, !.status = "ok",
                                               !.total = Len(full_library_cache[k])])
                  ELSE Respond(s, [base EXCEPT !.code = 500, !.status = "error"])

(***************************************************************************)
(* /api/song-details and /api/create-playlist                              *)
(***************************************************************************)
\* the song_ids of a request body
SongIdRequests == {<<"a", "zz", "a">>}

\* lines 750-762: the cached songs with the requested ids, in request order
RECURSIVE Details(_, _)
Details(all_songs, song_ids) ==
    IF song_ids = <<>> THEN <<>>
    ELSE LET hits == {i \in 1..Len(all_songs) : all_songs[i].id = Head(song_ids)} IN
         (IF hits = {} THEN <<>> ELSE <<Head(song_ids)>>) \o Details(all_songs, Tail(song_ids))

\* song_details_api reading the cache with setdefault(user_id, []) in place
\* of get(user_id, []): a user without an entry is given an empty one
song_details_api_setdefault(s) ==
    /\ pc[s] = "idle"
    /\ UNCHANGED <<library_cache, fetched, token, session_uid, arg, out, phase>>
    /\ LET base == [NoResp EXCEPT !.op = "song_details"]
           user_id == session_uid[s]
           all_songs == IF user_id \in DOMAIN full_library_cache
                        THEN full_library_cache[user_id] ELSE <<>>
       IN IF token[s] = NoUser
          THEN /\ Respond(s, [base EXCEPT !.code = 401, !.status = "error"])
               /\ full_library_cache' = full_library_cache
          ELSE /\ full_library_cache' = Put(full_library_cache, user_id, all_songs)
               /\ IF all_songs = <<>>
                  THEN Respond(s, [base EXCEPT !.code = 400, !.status = "error"])
                  ELSE \/ Respond(s, [base EXCEPT !.code = 500, !.status = "error"])
                       \/ \E song_ids \in SongIdRequests :
                             Respond(s, [base EXCEPT !.code = 200, !.status = "ok",
                                                     !.total = Len(Details(all_songs, song_ids))])

\* lines 732-765: one read of full_library_cache under the session's user
\* id, then work on the list that was read; a request without a JSON body
\* raises at line 747 (500)
song_details_api(s) ==
    /\ pc[s] = "idle"
    /\ UNCHANGED <<library_cache, full_library_cache, fetched, token, session_uid, arg, out, phase>>
    /\ LET base == [NoResp EXCEPT !.op = "song_details"]
           user_id == session_uid[s]
           all_songs == IF user_id \in DOMAIN full_library_cache
                        THEN full_library_cache[user_id] ELSE <<>>
       IN IF token[s] = NoUser
          THEN Respond(s, [base EXCEPT !.code = 401, !.status = "error"])
          ELSE IF all_songs = <<>>
               THEN Respond(s, [base EXCEPT !.code = 400, !.status = "error"])
               ELSE \/ Respond(s, [base EXCEPT !.code = 500, !.status = "error"])
                    \/ \E song_ids \in SongIdRequests :
                          Respond(s, [base EXCEPT !.code = 200, !.status = "ok",
                                                  !.total = Len(Details(all_songs, song_ids))])

\* lines 673-729 as one step of the server: the handler reads and writes
\* neither cache nor the session; its remote calls are taken one at a time
\* in SpecCreate
create_playlist_api(s) ==
    /\ pc[s] = "idle"
    /\ UNCHANGED <<library_cache, full_library_cache, fetched, token, session_uid, arg, out, phase>>
    /\ LET base == [NoResp EXCEPT !.op = "create_playlist"] IN
       IF token[s] = NoUser
       THEN Respond(s, [base EXCEPT !.code = 401, !.status = "error"])
       ELSE \/ Respond(s, [base EXCEPT !.code = 400, !.status = "error"])
            \/ Respond(s, [base EXCEPT !.code = 500, !.status = "error"])
            \/ Respond(s, [base EXCEPT !.code = 200, !.status = "ok"])

(***************************************************************************)
(* /logout                                                                 *)
(***************************************************************************)
\* lines 770-772, and 774-775 when the session names no user
LogoutStart(s) ==
    /\ pc[s] = "idle"
    /\ IF session_uid[s] # NoUser
       THEN /\ library_cache' = Pop(library_cache, session_uid[s])
            /\ Goto(s, "logout_pop", [LocIdle EXCEPT !.key = session_uid[s]])
            /\ UNCHANGED <<token, session_uid>>
       ELSE /\ token' = [token EXCEPT ![s] = NoUser]
            /\ Respond(s, [NoResp EXCEPT !.op = "logout", !.code = 302, !.status = "redirect"])
            /\ UNCHANGED <<library_cache, session_uid>>
    /\ UNCHANGED <<full_library_cache, fetched, arg, out, phase>>

\* a logout that drops the token and keeps the rest of the session
LogoutFinishKeepingUserId(s) ==
    /\ pc[s] = "logout_pop"
    /\ full_library_cache' = Pop(full_library_cache, loc[s].key)
    /\ fetched' = [fetched EXCEPT ![loc[s].key] = <<>>]
    /\ token' = [token EXCEPT ![s] = NoUser]
    /\ Respond(s, [NoResp EXCEPT !.op = "logout", !.code = 302, !.status = "redirect"])
    /\ UNCHANGED <<library_cache, session_uid, arg, out, phase>>

\* lines 773-775
LogoutFinish(s) ==
    /\ pc[s] = "logout_pop"
    /\ full_library_cache' = Pop(full_library_cache, loc[s].key)
    /\ fetched' = [fetched EXCEPT ![loc[s].key] = <<>>]
    /\ token' = [token EXCEPT ![s] = NoUser]
    /\ session_uid' = [session_uid EXCEPT ![s] = NoUser]
    /\ Respond(s, [NoResp EXCEPT !.op = "logout", !.code = 302, !.status = "redirect"])
    /\ UNCHANGED <<library_cache, arg, out, phase>>

(***************************************************************************)
(* The server: sessions take steps in any order.                           *)
(***************************************************************************)
Next ==
    \E s \in Sessions :
        \/ \E u \in Users : callback(s, u)
        \/ Receive(s)
        \/ LoadStart(s)
        \/ LoadFetch(s)
        \/ LoadWriteFull(s)
        \/ \E mode \in {"chat", "creator"} : ChatStart(s, mode)
        \/ EnsureCheck(s)
        \/ EnsureFetch(s)
        \/ EnsureWriteFull(s)
        \/ ChatReply(s)
        \/ song_details_api(s)
        \/ create_playlist_api(s)
        \/ LogoutStart(s)
        \/ LogoutFinish(s)

Spec == Init /\ [][Next]_vars

(***************************************************************************)
(* The fetch pipeline run on its own: a library and the calls that fail    *)
(* are drawn at the start, then lines 607-612 run one call at a time.      *)
(***************************************************************************)
NoOut ==
    [liked |-> <<>>, liked_raised |-> "none", pl_songs |-> <<>>, pl_meta |-> <<>>,
     pl_raised |-> "none", top_a |-> <<>>, top_t |-> <<>>, all_unique |-> <<>>,
     summary |-> NoSummary]

FetchInit ==
    /\ MainInit
    /\ arg \in UNION {{[lib |-> l, F |-> F] : F \in FailureSets(l)} : l \in TestLibs}
    /\ out = NoOut
    /\ phase = "input"

\* line 607
RunLiked ==
    /\ phase = "input"
    /\ out' = [out EXCEPT !.liked = fetch_all_liked_songs(arg.lib, arg.F).songs,
                          !.liked_raised = fetch_all_liked_songs(arg.lib, arg.F).raised]
    /\ phase' = "liked"
    /\ UNCHANGED <<arg, library_cache, full_library_cache, fetched, token, session_uid, pc, loc, resp>>

\* line 608
RunPlaylists ==
    /\ phase = "liked"
    /\ out' = [out EXCEPT !.pl_songs = fetch_all_playlist_songs(arg.lib, arg.F).songs,
                          !.pl_meta = fetch_all_playlist_songs(arg.lib, arg.F).meta,
                          !.pl_raised = fetch_all_playlist_songs(arg.lib, arg.F).raised]
    /\ phase' = "playlists"
    /\ UNCHANGED <<arg, library_cache, full_library_cache, fetched, token, session_uid, pc, loc, resp>>

\* line 609
RunTopArtists ==
    /\ phase = "playlists"
    /\ out' = [out EXCEPT !.top_a = fetch_top_artists(arg.lib, arg.F)]
    /\ phase' = "top_artists"
    /\ UNCHANGED <<arg, library_cache, full_library_cache, fetched, token, session_uid, pc, loc, resp>>

\* line 610
RunTopTracks ==
    /\ phase = "top_artists"
    /\ out' = [out EXCEPT !.top_t = fetch_top_tracks(arg.lib, arg.F)]
    /\ phase' = "top_tracks"
    /\ UNCHANGED <<arg, library_cache, full_library_cache, fetched, token, session_uid, pc, loc, resp>>

\* line 612
RunDedup ==
    /\ phase = "top_tracks"
    /\ out' = [out EXCEPT !.all_unique = deduplicate_songs(out.liked, out.pl_songs)]
    /\ phase' = "merged"
    /\ UNCHANGED <<arg, library_cache, full_library_cache, fetched, token, session_uid, pc, loc, resp>>

\* line 613
RunSummarize ==
    /\ phase = "merged"
    /\ out' = [out EXCEPT !.summary = summarize_library(out.all_unique, out.pl_meta,
                                                         out.top_a, out.top_t)]
    /\ phase' = "summarized"
    /\ UNCHANGED <<arg, library_cache, full_library_cache, fetched, token, session_uid, pc, loc, resp>>

FetchNext ==
    \/ RunLiked
    \/ RunPlaylists
    \/ RunTopArtists
    \/ RunTopTracks
    \/ RunDedup
    \/ RunSummarize

SpecFetch == FetchInit /\ [][FetchNext]_vars

(***************************************************************************)
(* The two fetchers run one remote call at a time: every call for a page   *)
(* is logged in out.requests, in the order the calls are made.             *)
(***************************************************************************)
\* HasNext that never sees a cursor: the loop stops after its first page
HasNextNever(pages, k) == FALSE

\* lines 138, 191, 198: results.get('next'), present on every page but the last
HasNext(pages, k) == k < Len(pages)

\* results / tracks_result: the number of the page the loop asks for next;
\* item: the position of the for loop in the current listing page
NoRun ==
    [songs |-> <<>>, all_songs |-> <<>>, playlists_meta |-> <<>>, requests |-> <<>>,
     results |-> 1, item |-> 0, tracks_result |-> 0, all_unique |-> <<>>]

PagesInit ==
    /\ MainInit
    /\ arg \in UNION {{[lib |-> l, F |-> F] : F \in FailureSets(l)} : l \in TestLibs}
    /\ out = NoRun
    /\ phase = "saved"

PagesFrame == UNCHANGED <<arg, library_cache, full_library_cache, fetched, token, session_uid, pc, loc, resp>>

\* lines 124-143: one round of the while loop of fetch_all_liked_songs, from
\* the call for the page to the look at its next cursor
SavedTracksPage ==
    /\ phase = "saved"
    /\ PagesFrame
    /\ LET k == out.results
           c == Call("liked", "", k)
           r == ScanItems(arg.lib.liked[k], <<"liked">>)
           asked == [out EXCEPT !.requests = Append(@, c)]
       IN IF c \in arg.F
          THEN out' = [asked EXCEPT !.results = 1] /\ phase' = "listing"
          ELSE IF r.err = "none" /\ HasNext(arg.lib.liked, k)
               THEN out' = [asked EXCEPT !.songs = @ \o r.songs, !.results = k + 1]
                    /\ phase' = "saved"
               ELSE out' = [asked EXCEPT !.songs = @ \o r.songs, !.results = 1]
                    /\ phase' = "listing"

\* lines 157-158, 199, 202-203: the call for one page of the playlist listing
PlaylistsPage ==
    /\ phase = "listing"
    /\ PagesFrame
    /\ LET c == Call("playlists", "", out.results)
           asked == [out EXCEPT !.requests = Append(@, c)]
       IN IF c \in arg.F
          THEN out' = asked /\ phase' = "done"
          ELSE out' = [asked EXCEPT !.item = 1] /\ phase' = "playlist"

\* lines 159-172, 198-201: one record of the listing page, or the end of the
\* page and the look at its next cursor
PlaylistItem ==
    /\ phase = "playlist"
    /\ PagesFrame
    /\ LET page == arg.lib.playlists[out.results] IN
       IF out.item > Len(page)
       THEN IF HasNext(arg.lib.playlists, out.results)
            THEN out' = [out EXCEPT !.results = @ + 1, !.item = 0] /\ phase' = "listing"
            ELSE out' = [out EXCEPT !.item = 0] /\ phase' = "done"
       ELSE LET pl == page[out.item] IN
            IF pl.null
            THEN out' = [out EXCEPT !.item = @ + 1] /\ phase' = "playlist"
            ELSE LET noted == [out EXCEPT !.playlists_meta = Append(@, Meta(pl))] IN
                 IF pl.id # "" /\ TrackCount(pl) > 0
                 THEN out' = [noted EXCEPT !.tracks_result = 1] /\ phase' = "tracks"
                 ELSE out' = [noted EXCEPT !.item = @ + 1] /\ phase' = "playlist"

\* lines 174-196: one round of the while loop over one playlist's items
TracksPage ==
    /\ phase = "tracks"
    /\ PagesFrame
    /\ LET pl == arg.lib.playlists[out.results][out.item]
           k == out.tracks_result
           c == Call("items", pl.id, k)
           r == ScanItems(arg.lib.items[pl.id][k], PlaylistSource(pl))
           asked == [out EXCEPT !.requests = Append(@, c)]
       IN IF c \in arg.F
          THEN out' = [asked EXCEPT !.tracks_result = 0, !.item = @ + 1]
               /\ phase' = "playlist"
          ELSE IF r.err = "none" /\ HasNext(arg.lib.items[pl.id], k)
               THEN out' = [asked EXCEPT !.all_songs = @ \o r.songs, !.tracks_result = k + 1]
                    /\ phase' = "tracks"
               ELSE out' = [asked EXCEPT !.all_songs = @ \o r.songs, !.tracks_result = 0,
                                         !.item = @ + 1]
                    /\ phase' = "playlist"

\* line 612, after both fetchers have returned
MergeFetched ==
    /\ phase = "done"
    /\ PagesFrame
    /\ out' = [out EXCEPT !.all_unique = deduplicate_songs(out.songs, out.all_songs)]
    /\ phase' = "catalog"

PagesNext == SavedTracksPage \/ PlaylistsPage \/ PlaylistItem \/ TracksPage \/ MergeFetched

SpecPages == PagesInit /\ [][PagesNext]_vars

\* a request that is being served takes its next step
SpecPagesFair == SpecPages /\ WF_vars(PagesNext)

(***************************************************************************)
(* deduplicate_songs run on its own, on every pair of short track lists.   *)
(***************************************************************************)
Tracks == [id : {"a", "b"}, source : {<<"liked">>, <<"playlist", "Mix">>}]

TrackLists == UNION {[1..n -> Tracks] : n \in 0..MaxLen}

MergeInit ==
    /\ MainInit
    /\ arg \in [primary : TrackLists, secondary : TrackLists]
    /\ out = <<>>
    /\ phase = "input"

\* lines 250-262
RunMerge ==
    /\ phase = "input"
    /\ out' = deduplicate_songs(arg.primary, arg.secondary)
    /\ phase' = "merged"
    /\ UNCHANGED <<arg, library_cache, full_library_cache, fetched, token, session_uid, pc, loc, resp>>

\* lines 250-262, called again with its own result as the first list
RunRemerge ==
    /\ phase = "merged"
    /\ out' = [first |-> out, again |-> deduplicate_songs(out, arg.secondary)]
    /\ phase' = "remerged"
    /\ UNCHANGED <<arg, library_cache, full_library_cache, fetched, token, session_uid, pc, loc, resp>>

MergeNext == RunMerge \/ RunRemerge

SpecMerge == MergeInit /\ [][MergeNext]_vars

(***************************************************************************)
(* Genre Classifier (spec 4.5).  A string is the sequence of its           *)
(* characters.  The taxonomy table is a short one with the shape the       *)
(* algorithm depends on: a key that is a substring of a later key, and     *)
(* keys that can occur together in one input.                              *)
(***************************************************************************)
Chars == {"p", "o", "k", "P", "K"}

LowerChar(c) == CASE c = "P" -> "p" [] c = "K" -> "k" [] c = "F" -> "f"
                  [] c = "E" -> "e" [] c = "C" -> "c" [] c = "O" -> "o" [] OTHER -> c

\* lower-case the input
Lower(str) == [i \in 1..Len(str) |-> LowerChar(str[i])]

PopGenre == <<"P", "o", "p">>
ElectronicGenre == <<"E", "l", "e", "c", "t", "r", "o", "n", "i", "c">>
ClassicalGenre == <<"C", "l", "a", "s", "s", "i", "c", "a", "l">>
FolkGenre == <<"F", "o", "l", "k">>
OtherGenre == <<"O", "t", "h", "e", "r">>

\* the fixed taxonomy table, in its declared order
GenreTable ==
    << [key |-> <<"p", "o", "p">>, value |-> PopGenre],
       [key |-> <<"k", "p", "o", "p">>, value |-> ElectronicGenre],
       [key |-> <<"o", "p">>, value |-> ClassicalGenre],
       [key |-> <<"o", "k">>, value |-> FolkGenre] >>

\* key is a substring of str
IsSubstring(key, str) ==
    \E i \in 0..(Len(str) - Len(key)) : SubSeq(str, i + 1, i + Len(key)) = key

\* scan the table in its declared order from entry i on: the value of the
\* first entry whose key is a substring of the input, otherwise OtherGenre
RECURSIVE ScanTable(_, _)
ScanTable(str, i) ==
    IF i > Len(GenreTable) THEN OtherGenre
    ELSE IF IsSubstring(GenreTable[i].key, str) THEN GenreTable[i].value
         ELSE ScanTable(str, i + 1)

\* classify without the exact-match step
ClassifyScanOnly(rawGenre) == ScanTable(Lower(rawGenre), 1)

\* classify(rawGenre) -> CanonicalGenre
classify(rawGenre) ==
    LET str == Lower(rawGenre)
        exact == {i \in 1..Len(GenreTable) : GenreTable[i].key = str}
    IN IF exact # {} THEN GenreTable[CHOOSE i \in exact : TRUE].value
       ELSE ScanTable(str, 1)

GenreStrings == UNION {[1..n -> Chars] : n \in 0..MaxStr}

ClassifyInit ==
    /\ MainInit
    /\ arg \in GenreStrings
    /\ out = <<>>
    /\ phase = "input"

RunClassify ==
    /\ phase = "input"
    /\ out' = classify(arg)
    /\ phase' = "classified"
    /\ UNCHANGED <<arg, library_cache, full_library_cache, fetched, token, session_uid, pc, loc, resp>>

ClassifyNext == RunClassify

SpecClassify == ClassifyInit /\ [][ClassifyNext]_vars

(***************************************************************************)
(* Matching Engine (spec 4.6)                                              *)
(***************************************************************************)
Artists == {"X", "Y", "Z"}

\* a catalog track with its allArtistIds
MatchTracks == [id : {"a", "b"}, artists : {<<>>, <<"X">>, <<"X", "Y">>}]

\* the classified genres of the track's artists; an artist the index does
\* not list contributes nothing
GenresOfTrack(track, genreIndex) ==
    UNION {{Lower(classify(genreIndex[track.artists[n]][m])) :
              m \in 1..Len(genreIndex[track.artists[n]])} :
             n \in {k \in 1..Len(track.artists) : track.artists[k] \in DOMAIN genreIndex}}

\* findCandidates that does not consult existingIds
FindCandidatesAmongAll(catalog, selectedGenres, existingIds, genreIndex) ==
    LET selected == {Lower(g) : g \in selectedGenres}
    IN SelectSeq(catalog, LAMBDA t : GenresOfTrack(t, genreIndex) \cap selected # {})

\* findCandidates(catalog, selectedGenres, existingIds, genreIndex) -> [Track]
findCandidates(catalog, selectedGenres, existingIds, genreIndex) ==
    LET selected == {Lower(g) : g \in selectedGenres}
    IN SelectSeq(catalog, LAMBDA t : /\ t.id \notin existingIds
                                     /\ GenresOfTrack(t, genreIndex) \cap selected # {})

\* artist genre indexes: none resolved; X resolved; X without genres and Y
\* with two
GenreIndexes ==
    {[a \in {} |-> <<>>],
     [a \in {"X"} |-> << <<"k", "p", "o", "p">> >>],
     [a \in {"X", "Y"} |-> IF a = "X" THEN <<>>
                           ELSE << <<"p", "o", "p", "k">>, <<"o", "k">> >>]}

SelectedGenreSets == {{}, {PopGenre}, {<<"f", "o", "l", "k">>, ElectronicGenre}}

MatchInit ==
    /\ MainInit
    /\ arg \in [catalog : UNION {[1..n -> MatchTracks] : n \in 0..MaxLen},
                selectedGenres : SelectedGenreSets,
                existingIds : SUBSET {"a", "b"},
                genreIndex : GenreIndexes]
    /\ out = <<>>
    /\ phase = "input"

RunMatch ==
    /\ phase = "input"
    /\ out' = findCandidates(arg.catalog, arg.selectedGenres, arg.existingIds, arg.genreIndex)
    /\ phase' = "matched"
    /\ UNCHANGED <<arg, library_cache, full_library_cache, fetched, token, session_uid, pc, loc, resp>>

MatchNext == RunMatch

SpecMatch == MatchInit /\ [][MatchNext]_vars

(***************************************************************************)
(* Artist Genre Resolver (spec 4.4), degraded path: one lookup per artist  *)
(* identifier, the lookups taken in any order.                             *)
(***************************************************************************)
\* the raw genre strings the remote holds for an artist
RemoteGenres(a) ==
    CASE a = "X" -> << <<"k", "p", "o", "p">> >>
      [] a = "Y" -> <<>>
      [] OTHER -> << <<"p", "o", "p">>, <<"o", "k">> >>

\* the index passed in as a baseline: none, or one that lists X already
Baselines == {[a \in {} |-> <<>>], [a \in {"X"} |-> << <<"p", "o", "p">> >>]}

ResolveInit ==
    /\ MainInit
    /\ arg \in UNION {[artistIds : {ids}, failing : SUBSET ids, baseline : Baselines] :
                        ids \in SUBSET Artists}
    /\ out = [index |-> arg.baseline, asked |-> {}, failures |-> 0, status |-> "running"]
    /\ phase = "resolving"

ResolveFrame == UNCHANGED <<arg, library_cache, full_library_cache, fetched, token, session_uid, pc, loc, resp>>

\* the identifiers still to look up: an artist of the baseline is not asked
\* for again
ToResolve == (arg.artistIds \ DOMAIN arg.baseline) \ out.asked

\* LookupArtist where a failed lookup ends the whole resolution
LookupArtistAborting ==
    /\ phase = "resolving"
    /\ ResolveFrame
    /\ \E a \in ToResolve :
          IF a \in arg.failing
          THEN /\ out' = [out EXCEPT !.asked = @ \cup {a}, !.failures = @ + 1,
                                     !.status = "failed"]
               /\ phase' = "resolved"
          ELSE /\ out' = [out EXCEPT !.asked = @ \cup {a},
                                     !.index = Put(@, a, RemoteGenres(a))]
               /\ phase' = "resolving"

\* one individual lookup: a failure is logged and counted and the artist is
\* left out of the index; a success adds the artist's entry
LookupArtist ==
    /\ phase = "resolving"
    /\ ResolveFrame
    /\ phase' = "resolving"
    /\ \E a \in ToResolve :
          IF a \in arg.failing
          THEN out' = [out EXCEPT !.asked = @ \cup {a}, !.failures = @ + 1]
          ELSE out' = [out EXCEPT !.asked = @ \cup {a},
                                  !.index = Put(@, a, RemoteGenres(a))]

\* every identifier has been looked up: resolve returns the index
ResolveReturn ==
    /\ phase = "resolving"
    /\ ToResolve = {}
    /\ ResolveFrame
    /\ out' = [out EXCEPT !.status = "ok"]
    /\ phase' = "resolved"

ResolveNext == LookupArtist \/ ResolveReturn

SpecResolve == ResolveInit /\ [][ResolveNext]_vars

\* a lookup that can be made is made, and resolve returns when none is left
SpecResolveFair == SpecResolve /\ WF_vars(ResolveNext)

(***************************************************************************)
(* add_items_to_playlist_direct run on its own, one POST at a time: every  *)
(* call is logged in out.requests with the batch it carries.               *)
(***************************************************************************)
\* line 530: range(0, len(uris), 100)
BatchSize == 100

\* line 700: f"spotify:track:{tid}"
Uri(tid) == <<"spotify:track:", tid>>

\* lists of track ids of every length up to MaxUris: all distinct, or
\* repeating with period three
SongIdLists == UNION {{[i \in 1..n |-> i], [i \in 1..n |-> i % 3]} : n \in 0..MaxUris}

\* the POSTs that answer with an error status, by their number
BatchFailureSets ==
    {F \in SUBSET (1..((MaxUris + BatchSize - 1) \div BatchSize)) : Cardinality(F) <= MaxFailures}

\* uris[i:i + 100] with the end of the slice taken one place too far
BatchOfInclusive(uris, i) ==
    SubSeq(uris, i + 1, IF i + BatchSize + 1 < Len(uris) THEN i + BatchSize + 1 ELSE Len(uris))

\* line 531: uris[i:i + 100]
BatchOf(uris, i) ==
    SubSeq(uris, i + 1, IF i + BatchSize < Len(uris) THEN i + BatchSize ELSE Len(uris))

AddItemsInit ==
    /\ MainInit
    /\ arg \in [uris : {[i \in 1..Len(ids) |-> Uri(ids[i])] : ids \in SongIdLists},
                Fail : BatchFailureSets]
    /\ out = [i |-> 0, requests |-> <<>>]
    /\ phase = "add"

AddItemsFrame == UNCHANGED <<arg, library_cache, full_library_cache, fetched, token, session_uid, pc, loc, resp>>

\* lines 530-540: one round of the for loop; raise_for_status raises when
\* the POST was answered with an error status
AddItemsBatch ==
    /\ phase = "add"
    /\ out.i < Len(arg.uris)
    /\ AddItemsFrame
    /\ LET sent == Append(out.requests, [api |-> "add", uris |-> BatchOf(arg.uris, out.i)]) IN
       IF Len(sent) \in arg.Fail
       THEN out' = [out EXCEPT !.requests = sent] /\ phase' = "add_raised"
       ELSE out' = [out EXCEPT !.requests = sent, !.i = @ + BatchSize] /\ phase' = "add"

\* line 530: the range is used up and the function returns
AddItemsReturn ==
    /\ phase = "add"
    /\ out.i >= Len(arg.uris)
    /\ AddItemsFrame
    /\ out' = out
    /\ phase' = "add_returned"

AddItemsNext == AddItemsBatch \/ AddItemsReturn

SpecAddItems == AddItemsInit /\ [][AddItemsNext]_vars

(***************************************************************************)
(* /api/create-playlist, one remote call at a time                         *)
(***************************************************************************)
\* the lengths of song_ids tried: none, one, a full batch, one more than a
\* batch, two batches, and the longest list
CreateLengths == {0, 1, BatchSize, BatchSize + 1, 2 * BatchSize, MaxUris}

\* request.get_json(): JSON null, or an object with or without "name" and
\* "song_ids"
CreateBodies ==
    {[json |-> "null", data |-> <<>>], [json |-> "object", data |-> <<>>],
     [json |-> "object", data |-> [name |-> "Mix"]]}
    \cup {[json |-> "object", data |-> [song_ids |-> ids]] :
             ids \in {l \in SongIdLists : Len(l) \in CreateLengths}}
    \cup {[json |-> "object", data |-> [name |-> "Mix", song_ids |-> ids]] :
             ids \in {l \in SongIdLists : Len(l) \in CreateLengths}}

\* the JSON object POST /me/playlists answers with: whole, or lacking one
\* of the two keys lines 713-714 read
CreatedPlaylists ==
    {[id |-> "pl1", external_urls |-> [spotify |-> "open/pl1"]],
     [id |-> "pl1"],
     [external_urls |-> [spotify |-> "open/pl1"]]}

\* the calls that can fail: the token refresh, the create call, and each
\* append batch by its number
CreatePoints ==
    {<<"token", 0>>, <<"create", 0>>}
    \cup {<<"add", k>> : k \in 1..((MaxUris + BatchSize - 1) \div BatchSize)}

CreateFailureSets == {F \in SUBSET CreatePoints : Cardinality(F) <= MaxFailures}

NoCreate ==
    [requests |-> <<>>, i |-> 0, playlist_name |-> "", track_uris |-> <<>>,
     playlist_id |-> "", playlist_url |-> "",
     code |-> 0, success |-> FALSE, track_count |-> 0]

CreateInit ==
    /\ MainInit
    /\ arg \in [signed_in : BOOLEAN, body : CreateBodies,
                created : CreatedPlaylists, Fail : CreateFailureSets]
    /\ out = NoCreate
    /\ phase = "create_auth"

CreateFrame == UNCHANGED <<arg, library_cache, full_library_cache, fetched, token, session_uid, pc, loc, resp>>

\* lines 687-688
CreateAuth ==
    /\ phase = "create_auth"
    /\ CreateFrame
    /\ IF arg.signed_in
       THEN out' = out /\ phase' = "create_body"
       ELSE out' = [out EXCEPT !.code = 401] /\ phase' = "responded"

\* lines 690-700: the body, the name with its default, the ids and their URIs
CreateBody ==
    /\ phase = "create_body"
    /\ CreateFrame
    /\ LET data == arg.body.data
           song_ids == IF "song_ids" \in DOMAIN data THEN data.song_ids ELSE <<>>
       IN IF arg.body.json = "null" \/ DOMAIN data = {}
          THEN out' = [out EXCEPT !.code = 400] /\ phase' = "responded"
          ELSE IF song_ids = <<>>
          THEN out' = [out EXCEPT !.code = 400] /\ phase' = "responded"
          ELSE /\ out' = [out EXCEPT
                            !.playlist_name = IF "name" \in DOMAIN data THEN data.name
                                              ELSE "Playlist Buddy Mix",
                            !.track_uris = [k \in 1..Len(song_ids) |-> Uri(song_ids[k])]]
               /\ phase' = "create_token"

\* line 704: get_access_token, which raises when the refresh fails
CreateToken ==
    /\ phase = "create_token"
    /\ CreateFrame
    /\ out' = out
    /\ phase' = IF <<"token", 0>> \in arg.Fail THEN "create_raised" ELSE "create_call"

\* lines 707-714 with 504-516: the POST to /me/playlists, raise_for_status,
\* and the two keys read from the answer
CreateCall ==
    /\ phase = "create_call"
    /\ CreateFrame
    /\ LET ok == <<"create", 0>> \notin arg.Fail
           sent == Append(out.requests,
                          [api |-> "create", name |-> out.playlist_name,
                           uris |-> <<>>, ok |-> ok])
       IN IF ~ok \/ "id" \notin DOMAIN arg.created
                 \/ "external_urls" \notin DOMAIN arg.created
          THEN out' = [out EXCEPT !.requests = sent] /\ phase' = "create_raised"
          ELSE /\ out' = [out EXCEPT !.requests = sent, !.i = 0,
                                     !.playlist_id = arg.created.id,
                                     !.playlist_url = arg.created.external_urls.spotify]
               /\ phase' = "create_add"

\* one round of the for loop whose answer is not looked at: the loop goes
\* on after a POST that was answered with an error status
CreateAddBatchUnchecked ==
    /\ phase = "create_add"
    /\ out.i < Len(out.track_uris)
    /\ CreateFrame
    /\ LET ok == <<"add", out.i \div BatchSize + 1>> \notin arg.Fail
           sent == Append(out.requests,
                          [api |-> "add", name |-> out.playlist_id,
                           uris |-> BatchOf(out.track_uris, out.i), ok |-> ok])
       IN out' = [out EXCEPT !.requests = sent, !.i = @ + BatchSize] /\ phase' = "create_add"

\* line 717 with 530-540: one round of the for loop of
\* add_items_to_playlist_direct, whose raise_for_status raises when the
\* POST was answered with an error status
CreateAddBatch ==
    /\ phase = "create_add"
    /\ out.i < Len(out.track_uris)
    /\ CreateFrame
    /\ LET ok == <<"add", out.i \div BatchSize + 1>> \notin arg.Fail
           sent == Append(out.requests,
                          [api |-> "add", name |-> out.playlist_id,
                           uris |-> BatchOf(out.track_uris, out.i), ok |-> ok])
       IN IF ok
          THEN out' = [out EXCEPT !.requests = sent, !.i = @ + BatchSize] /\ phase' = "create_add"
          ELSE out' = [out EXCEPT !.requests = sent] /\ phase' = "create_raised"

\* lines 530 and 719-725: the range is used up and the handler answers
CreateSuccess ==
    /\ phase = "create_add"
    /\ out.i >= Len(out.track_uris)
    /\ CreateFrame
    /\ out' = [out EXCEPT !.code = 200, !.success = TRUE,
                          !.track_count = Len(out.track_uris)]
    /\ phase' = "responded"

\* lines 727-729
CreateExcept ==
    /\ phase = "create_raised"
    /\ CreateFrame
    /\ out' = [out EXCEPT !.code = 500]
    /\ phase' = "responded"

CreateNext ==
    \/ CreateAuth
    \/ CreateBody
    \/ CreateToken
    \/ CreateCall
    \/ CreateAddBatch
    \/ CreateSuccess
    \/ CreateExcept

SpecCreate == CreateInit /\ [][CreateNext]_vars

(***************************************************************************)
(* Properties.                                                             *)
(***************************************************************************)
\* a full load of the session's request is under way: it found no entry for
\* the user and has not yet returned from its last cache write
InLoad(s) ==
    pc[s] \in {"load_fetch", "load_write_full", "ens_fetch", "ens_write_full"}

\* C1: when a liked-songs page or a playlist-listing page failed during a
\* load_library fetch, the load ends with an error response and with no
\* entry for the user in library_cache or full_library_cache.
C1_FailedLoadCachesNothing ==
    [][\A s \in Sessions :
          (pc[s] = "load_write_full" /\ loc[s].failed /\ pc'[s] = "responded")
          => /\ resp'[s].status = "error"
             /\ loc[s].user \notin DOMAIN library_cache'
             /\ loc[s].user \notin DOMAIN full_library_cache']_vars

\* C2: no two requests run a full load for the same user at the same time:
\* a request that arrives while a load for its user is under way starts no
\* second fetch.
C2_SingleFlight ==
    \A s1, s2 \in Sessions :
        (s1 # s2 /\ InLoad(s1) /\ InLoad(s2)) => loc[s1].user # loc[s2].user

\* C3: when the logout of a session signed in as user u returns, and no load
\* of another session is under way, u has no entry in library_cache and none
\* in full_library_cache.
C3_LogoutClearsUser ==
    [][\A s \in Sessions :
          (pc[s] \in {"idle", "logout_pop"} /\ pc'[s] = "responded"
           /\ resp'[s].op = "logout" /\ token[s] # NoUser
           /\ \A t \in Sessions \ {s} : ~InLoad(t))
          => /\ token[s] \notin DOMAIN library_cache'
             /\ token[s] \notin DOMAIN full_library_cache']_vars

\* C4: a chat or creator-chat request that arrived while its signed-in user
\* had an entry in both caches never gets to the full fetch of the rebuild.
C4_ReadyLoadFetchesNothing ==
    \A s \in Sessions : pc[s] = "ens_fetch" => ~loc[s].ready

\* a record that carries a track with an id that lines 132-135 can read
Readable(it) == it.key = "track" /\ it.id # "" /\ it.wf

\* a record that carries a track with an id on which lines 132-135 raise
\* (no 'uri', no 'name', or an artist or album without a 'name')
Malformed(it) == it.key = "track" /\ it.id # "" /\ ~it.wf

\* the songs of the readable records of items, in order
Admitted(items, source) ==
    LET kept == SelectSeq(items, Readable)
    IN [i \in 1..Len(kept) |-> [id |-> kept[i].id, source |-> source]]

HasMalformed(items) == \E i \in 1..Len(items) : Malformed(items[i])

\* page K is the first page of the run whose call fails or whose processing
\* fails
FirstBreak(pages, api, pid, F, K) ==
    /\ K \in 1..Len(pages)
    /\ Call(api, pid, K) \in F \/ HasMalformed(pages[K])
    /\ \A j \in 1..(K - 1) : Call(api, pid, j) \notin F /\ ~HasMalformed(pages[j])

\* the playlists of the listing, in listing order
AllPlaylists(lib) == SelectSeq(Flatten(lib.playlists), LAMBDA q : ~q.null)

\* the playlist's items are crawled, and nothing fails while they are
Crawled(q) == q.id # "" /\ q.countKey = "tracks" /\ q.total > 0
Clean(lib, q, F) ==
    /\ \A c \in F : ~(c.api = "items" /\ c.pid = q.id)
    /\ ~HasMalformed(Flatten(lib.items[q.id]))

\* the songs of the result that came from playlist q
SongsOf(songs, q) == SelectSeq(songs, LAMBDA t : t.source = <<"playlist", q.name>>)

\* C5: when page K is the first page of the saved-tracks run that fails (its
\* call, or the processing of its records), the run yields exactly the
\* admitted records of pages 1..K-1 and raises to its caller; the same holds
\* for the signal of the playlist-listing run.
C5_FailureEndsRunAndSignals ==
    /\ phase # "input" =>
         \A K \in 1..Len(arg.lib.liked) :
            FirstBreak(arg.lib.liked, "liked", "", arg.F, K)
            => /\ out.liked = Admitted(Flatten(SubSeq(arg.lib.liked, 1, K - 1)), <<"liked">>)
               /\ out.liked_raised # "none"
    /\ phase \in {"playlists", "merged"} =>
         ((\E c \in arg.F : c.api = "playlists") => out.pl_raised # "none")

\* C6: when no listing call fails, a failure inside one playlist's items
\* costs nothing else: the metadata of every listed playlist is recorded,
\* the failing one included, and every playlist that is crawled without a
\* failure of its own, before or after the failing one, has all its
\* admitted records in the result.
C6_PlaylistFailureIsolated ==
    (phase \in {"playlists", "merged"} /\ \A c \in arg.F : c.api # "playlists")
    => LET all == AllPlaylists(arg.lib) IN
       /\ out.pl_meta = [i \in 1..Len(all) |->
                           [name |-> all[i].name,
                            tracks |-> IF all[i].countKey = "tracks" THEN all[i].total ELSE 0]]
       /\ \A i \in 1..Len(all) :
             (Crawled(all[i]) /\ Clean(arg.lib, all[i], arg.F))
             => SongsOf(out.pl_songs, all[i])
                  = Admitted(Flatten(arg.lib.items[all[i].id]), <<"playlist", all[i].name>>)

\* C6 happens: the first call for one playlist's items failed, that
\* playlist's metadata is in the result, and so are the songs of a playlist
\* listed after it.
C6_Witness ==
    /\ phase = "playlists"
    /\ LET all == AllPlaylists(arg.lib) IN
       \E i, j \in 1..Len(all) :
          /\ i < j
          /\ Crawled(all[i]) /\ Call("items", all[i].id, 1) \in arg.F
          /\ \E n \in 1..Len(out.pl_meta) : out.pl_meta[n].name = all[i].name
          /\ Crawled(all[j]) /\ Clean(arg.lib, all[j], arg.F)
          /\ SongsOf(out.pl_songs, all[j]) # <<>>

\* C7: with no failing call, a malformed record costs only itself: every
\* readable record of every page of saved tracks, and of every crawled
\* playlist, is in the result.
C7_MalformedRecordOnlyDropped ==
    (arg.F = {}) =>
       /\ phase # "input" => out.liked = Admitted(Flatten(arg.lib.liked), <<"liked">>)
       /\ phase \in {"playlists", "merged"} =>
            LET all == AllPlaylists(arg.lib) IN
            \A i \in 1..Len(all) :
               Crawled(all[i])
               => SongsOf(out.pl_songs, all[i])
                    = Admitted(Flatten(arg.lib.items[all[i].id]), <<"playlist", all[i].name>>)

\* C8: no track of a cached catalog, and none of a catalog about to be
\* cached, has an empty id.
C8_CachedIdsNonEmpty ==
    /\ \A u \in DOMAIN full_library_cache :
          \A i \in 1..Len(full_library_cache[u]) : full_library_cache[u][i].id # ""
    /\ \A s \in Sessions :
          \A i \in 1..Len(loc[s].all_unique) : loc[s].all_unique[i].id # ""

\* C8 happens: u1's saved tracks start with a record without an id and its
\* playlist Gym starts with a record without a track; the catalog is cached
\* with the records that follow them.
C8_Witness ==
    /\ "u1" \in DOMAIN full_library_cache
    /\ \E i \in 1..Len(full_library_cache["u1"]) :
          full_library_cache["u1"][i] = [id |-> "a", source |-> <<"liked">>]
    /\ \E j \in 1..Len(fetched["u1"]) :
          fetched["u1"][j] = [id |-> "b", source |-> <<"playlist", "Gym">>]

\* C9: no two tracks of a cached catalog share an id, and each carries the
\* source of the first record with its id in the list the catalog was built
\* from, which holds the liked songs first and the playlist songs after.
C9_CatalogUniqueFirstSource ==
    \A u \in DOMAIN full_library_cache :
       LET c == full_library_cache[u]
           raw == fetched[u]
       IN /\ \A i, j \in 1..Len(c) : c[i].id = c[j].id => i = j
          /\ \A i \in 1..Len(c) :
                \E j \in 1..Len(raw) :
                   /\ raw[j] = c[i]
                   /\ \A k \in 1..(j - 1) : raw[k].id # c[i].id
          /\ \A j, k \in 1..Len(raw) :
                (j < k /\ raw[k].source = <<"liked">>) => raw[j].source = <<"liked">>

\* C9 happens: "a" was fetched as a liked song and from two playlists, and
\* is cached once, as a liked song.
C9_Witness ==
    /\ "u1" \in DOMAIN full_library_cache
    /\ \A src \in {<<"liked">>, <<"playlist", "Mix">>, <<"playlist", "Gym">>} :
          \E j \in 1..Len(fetched["u1"]) : fetched["u1"][j] = [id |-> "a", source |-> src]
    /\ \E i \in 1..Len(full_library_cache["u1"]) :
          full_library_cache["u1"][i] = [id |-> "a", source |-> <<"liked">>]

\* the members of L at the positions K, in order
Pick(L, K) ==
    [n \in 1..Cardinality(K) |-> L[CHOOSE j \in K : Cardinality({i \in K : i < j}) = n - 1]]

\* the position holds the first member of L with its id
FirstOfId(L, j) == \A i \in 1..(j - 1) : L[i].id # L[j].id

\* C10 as stated: the result is all of primary, followed by the members of
\* secondary whose id was not seen before them.
C10_AllOfPrimaryThenUnseen ==
    phase = "merged" =>
       LET L == arg.primary \o arg.secondary IN
       out = arg.primary
             \o Pick(L, {j \in (Len(arg.primary) + 1)..Len(L) : FirstOfId(L, j)})

\* C10, amended: the result is the members of primary whose id did not occur
\* earlier in primary, followed by the members of secondary whose id was not
\* seen before them, each part in its original order; the copy kept for an
\* id is the first one, a copy of primary when primary has the id.
C10_FirstOfPrimaryThenUnseen ==
    phase = "merged" =>
       LET L == arg.primary \o arg.secondary IN
       /\ out = Pick(arg.primary, {j \in 1..Len(arg.primary) : FirstOfId(arg.primary, j)})
                \o Pick(L, {j \in (Len(arg.primary) + 1)..Len(L) : FirstOfId(L, j)})
       /\ \A i \in 1..Len(arg.primary) :
             FirstOfId(arg.primary, i) => \E n \in 1..Len(out) : out[n] = arg.primary[i]

\* C10 happens: primary has two copies of an id, secondary has a third copy
\* from another source and a track not seen before.
C10_Witness ==
    /\ phase = "merged"
    /\ Len(arg.primary) = 2 /\ arg.primary[1].id = arg.primary[2].id
    /\ \E j \in 1..Len(arg.secondary) :
          arg.secondary[j].id = arg.primary[1].id /\ arg.secondary[j] # arg.primary[1]
    /\ \E j \in 1..Len(arg.secondary) : arg.secondary[j].id # arg.primary[1].id
    /\ Len(out) = 2

\* C11: merging is idempotent: merging the result of a merge with the same
\* second list again gives that result back.
C11_MergeIdempotent ==
    phase = "remerged" => out.again = out.first

\* C11 happens: the two lists share an id, the second list has an id of its
\* own twice, and the merge was run on its own result.
C11_Witness ==
    /\ phase = "remerged"
    /\ Len(arg.primary) = 1 /\ Len(arg.secondary) = 2
    /\ arg.secondary[1].id # arg.primary[1].id
    /\ arg.secondary[2].id = arg.primary[1].id
    /\ Len(out.first) = 2 /\ Len(out.again) = 2

\* the calls of the log made for the pages of one loop, in the order made
RequestsOf(api, pid) == SelectSeq(out.requests, LAMBDA c : c.api = api /\ c.pid = pid)

\* pages 1..n of one loop, each asked for once, in page order
EveryPageOnce(api, pid, n) == [k \in 1..n |-> Call(api, pid, k)]

\* no call of the loop fails and no record of its pages raises
LoopClean(pages, api, pid) ==
    /\ \A c \in arg.F : ~(c.api = api /\ c.pid = pid)
    /\ ~HasMalformed(Flatten(pages))

\* the fetchers agree with the page-by-page run
PagesAgree ==
    phase = "done" =>
       /\ out.songs = fetch_all_liked_songs(arg.lib, arg.F).songs
       /\ out.all_songs = fetch_all_playlist_songs(arg.lib, arg.F).songs
       /\ out.playlists_meta = fetch_all_playlist_songs(arg.lib, arg.F).meta

\* C12: the run of the fetchers ends, and when it has ended every loop that
\* met no failure (no failing call, no record that raises) has asked for
\* each of its pages exactly once, in page order, and has returned the
\* admitted records of all its pages in page order: the saved tracks, the
\* playlist listing, and the items of every playlist that is crawled.
C12_LoopsEndAndReadEveryPageOnce ==
    /\ <>(phase = "done")
    /\ [](phase = "done" =>
          LET lib == arg.lib
              all == AllPlaylists(lib)
          IN /\ LoopClean(lib.liked, "liked", "")
                => /\ RequestsOf("liked", "") = EveryPageOnce("liked", "", Len(lib.liked))
                   /\ out.songs = Admitted(Flatten(lib.liked), <<"liked">>)
             /\ (\A c \in arg.F : c.api # "playlists")
                => /\ RequestsOf("playlists", "")
                        = EveryPageOnce("playlists", "", Len(lib.playlists))
                   /\ out.playlists_meta = [i \in 1..Len(all) |-> Meta(all[i])]
                   /\ \A i \in 1..Len(all) :
                         (Crawled(all[i]) /\ LoopClean(lib.items[all[i].id], "items", all[i].id))
                         => /\ RequestsOf("items", all[i].id)
                                 = EveryPageOnce("items", all[i].id, Len(lib.items[all[i].id]))
                            /\ SongsOf(out.all_songs, all[i])
                                 = Admitted(Flatten(lib.items[all[i].id]),
                                            <<"playlist", all[i].name>>))

\* C12 happens: a run without any failure over three pages of saved tracks
\* and a playlist of three pages has ended with every page asked for.
C12_Witness ==
    /\ phase = "done"
    /\ arg.F = {}
    /\ Len(arg.lib.liked) = 3
    /\ Len(RequestsOf("liked", "")) = 3
    /\ Len(RequestsOf("items", "p1")) = 3
    /\ Len(out.songs) = 3 /\ Len(out.all_songs) = 3

\* the place of a source in the order of the fetch: the liked songs, then
\* the playlists in the order of the listing
ListingRank(lib, source) ==
    IF source = <<"liked">> THEN 0
    ELSE LET all == AllPlaylists(lib) IN
         CHOOSE i \in 1..Len(all) : <<"playlist", all[i].name>> = source

\* the records the source was read from, in page order
PagesOfSource(lib, source) ==
    IF source = <<"liked">> THEN Flatten(lib.liked)
    ELSE Flatten(lib.items[AllPlaylists(lib)[ListingRank(lib, source)].id])

\* the first place of the id among the records
FirstPlace(items, id) ==
    CHOOSE n \in 1..Len(items) :
       /\ items[n].id = id
       /\ \A m \in 1..(n - 1) : items[m].id # id

\* the admitted records of the playlists, in listing order and page order
RECURSIVE PlaylistRecords(_, _)
PlaylistRecords(lib, pls) ==
    IF pls = <<>> THEN <<>>
    ELSE (IF Crawled(Head(pls))
          THEN Admitted(Flatten(lib.items[Head(pls).id]), <<"playlist", Head(pls).name>>)
          ELSE <<>>)
         \o PlaylistRecords(lib, Tail(pls))

\* the run met no failure at all
CleanRun == arg.F = {} /\ \A p \in {arg.lib.liked} \cup {arg.lib.items[q] : q \in PlaylistIds} :
                             ~HasMalformed(Flatten(p))

\* C13: the catalog of a load is fixed by the responses of the remote: its
\* tracks stand in the order liked songs, then playlists in listing order,
\* and within one source in page order; when nothing failed it is exactly
\* the first record of each id in the list of all admitted records taken
\* in that order.
C13_CatalogOrderFollowsResponses ==
    phase = "catalog" =>
       LET c == out.all_unique
           lib == arg.lib
       IN /\ \A i, j \in 1..Len(c) :
                i < j =>
                   /\ ListingRank(lib, c[i].source) <= ListingRank(lib, c[j].source)
                   /\ c[i].source = c[j].source
                      => FirstPlace(PagesOfSource(lib, c[i].source), c[i].id)
                           < FirstPlace(PagesOfSource(lib, c[j].source), c[j].id)
          /\ CleanRun =>
                LET L == Admitted(Flatten(lib.liked), <<"liked">>)
                         \o PlaylistRecords(lib, AllPlaylists(lib))
                IN c = Pick(L, {j \in 1..Len(L) : FirstOfId(L, j)})

\* C13 happens: a catalog with liked songs and tracks of two playlists, one
\* of them on two pages, built from a library where a later playlist repeats
\* a track of an earlier one.
C13_Witness ==
    /\ phase = "catalog"
    /\ arg.F = {}
    /\ Len(arg.lib.items["p2"]) = 2
    /\ \E i, j, k \in 1..Len(out.all_unique) :
          /\ i < j /\ j < k
          /\ out.all_unique[i].source = <<"liked">>
          /\ out.all_unique[j].source = <<"playlist", "Mix">>
          /\ out.all_unique[k].source = <<"playlist", "Gym">>
    /\ Len(out.all_unique) < Len(out.songs) + Len(out.all_songs)

\* the keys a track payload, and a track count, may sit under
PayloadKeys == {"track", "item"}
CountKeys == {"tracks", "items"}

\* the songs of the records that carry a readable track with an id under
\* either key, in order
AdmittedEitherKey(items, source) ==
    LET kept == SelectSeq(items, LAMBDA it : it.key \in PayloadKeys /\ it.id # "" /\ it.wf)
    IN [i \in 1..Len(kept) |-> [id |-> kept[i].id, source |-> source]]

\* C14: a track payload under the alternate key and a track count under the
\* alternate key are handled like the primary shape: when no call fails,
\* every listed playlist is recorded with the count it carries under either
\* key, and every playlist with an id and a positive count under either key
\* whose items hold no record that raises has all the records that carry a
\* track with an id, under either key, in the result.
C14_AlternateKeysHandled ==
    (phase \in {"playlists", "merged"} /\ arg.F = {})
    => LET all == AllPlaylists(arg.lib) IN
       \A i \in 1..Len(all) :
          LET q == all[i] IN
          /\ q.countKey \in CountKeys => out.pl_meta[i].tracks = q.total
          /\ (q.id # "" /\ q.countKey \in CountKeys /\ q.total > 0
              /\ LoopClean(arg.lib.items[q.id], "items", q.id))
             => SongsOf(out.pl_songs, q)
                  = AdmittedEitherKey(Flatten(arg.lib.items[q.id]), <<"playlist", q.name>>)

\* the endpoints that ask for a token
Protected == {"load", "chat", "creator", "create_playlist", "song_details"}

\* C15: a request to a protected endpoint from a session that holds no token
\* is answered at once with 401, and the step that takes it changes neither
\* cache and starts no fetch.
C15_NoTokenNoEffect ==
    [][\A s \in Sessions :
          (pc[s] = "idle" /\ pc'[s] # "idle" /\ token[s] = NoUser
           /\ ~(pc'[s] = "logout_pop" \/ resp'[s].op = "logout"))
          => /\ pc'[s] = "responded"
             /\ resp'[s].op \in Protected
             /\ resp'[s].code = 401
             /\ library_cache' = library_cache
             /\ full_library_cache' = full_library_cache]_vars

\* C15 happens: a session without a token was refused by song_details_api
\* while another user's library sat in the caches.
C15_Witness ==
    /\ InBoth("u1")
    /\ \E s \in Sessions :
          /\ token[s] = NoUser
          /\ pc[s] = "responded"
          /\ resp[s].code = 401
          /\ resp[s].op = "song_details"

\* the step is a step of a logout request of session s
LogoutStep(s) ==
    \/ pc[s] = "idle" /\ pc'[s] = "logout_pop"
    \/ pc[s] = "idle" /\ pc'[s] = "responded" /\ resp'[s].op = "logout"
    \/ pc[s] = "logout_pop" /\ pc'[s] = "responded"

\* an entry of user u leaves one of the caches in the step
Removed(u) ==
    \/ u \in DOMAIN library_cache /\ u \notin DOMAIN library_cache'
    \/ u \in DOMAIN full_library_cache /\ u \notin DOMAIN full_library_cache'

\* C16: a cache entry of a user leaves a cache only in a step of a logout of
\* that user: a logout request of a session that holds that user's token.
\* No load, chat, song-details or create-playlist step, and no step of a
\* session of another user, removes it.
C16_RemovedOnlyByOwnLogout ==
    [][\A u \in Users :
          Removed(u) => \E s \in Sessions : LogoutStep(s) /\ token[s] = u]_vars

\* C16 happens: with both users cached, a session of u1 is in the middle of
\* its logout, which has removed u1's summary and nothing of u2, whose
\* session is still signed in.
C16_Witness ==
    \E s, t \in Sessions :
       /\ pc[s] = "logout_pop" /\ token[s] = "u1" /\ loc[s].key = "u1"
       /\ "u1" \notin DOMAIN library_cache /\ "u1" \in DOMAIN full_library_cache
       /\ token[t] = "u2" /\ InBoth("u2")

\* C17: no track returned by findCandidates has its id in existingIds.
C17_NoExistingTrackReturned ==
    phase = "matched" => \A i \in 1..Len(out) : out[i].id \notin arg.existingIds

\* C17 happens: two tracks of the same artists match the selected genre, the
\* first is already a member, and only the second is returned.
C17_Witness ==
    /\ phase = "matched"
    /\ arg.selectedGenres = {PopGenre}
    /\ arg.existingIds = {"a"}
    /\ arg.catalog = << [id |-> "a", artists |-> <<"X", "Y">>],
                        [id |-> "b", artists |-> <<"X", "Y">>] >>
    /\ "Y" \in DOMAIN arg.genreIndex
    /\ out = << [id |-> "b", artists |-> <<"X", "Y">>] >>

\* the entries of the table whose key is a substring of the string
SubstringHits(str) == {i \in 1..Len(GenreTable) : IsSubstring(GenreTable[i].key, str)}

\* C18: the category of an input is fixed by its lower-cased string and the
\* table: the value of the entry whose key equals the string when there is
\* one, whatever earlier entries are substrings of it; otherwise the value
\* of the first entry, in declaration order, whose key is a substring of
\* the string; otherwise OtherGenre.
C18_ExactThenFirstSubstring ==
    phase = "classified" =>
       LET str == [i \in 1..Len(arg) |-> LowerChar(arg[i])]
           hits == SubstringHits(str)
       IN /\ \A i \in 1..Len(GenreTable) : GenreTable[i].key = str => out = GenreTable[i].value
          /\ ((\A i \in 1..Len(GenreTable) : GenreTable[i].key # str) /\ hits # {})
             => out = GenreTable[CHOOSE i \in hits : \A j \in hits : i <= j].value
          /\ hits = {} => out = OtherGenre

\* C18 happens: a mixed-case input equal to the second key of the table,
\* which holds the first key as a substring, was given the second entry's
\* category.
C18_Witness ==
    /\ phase = "classified"
    /\ arg = <<"K", "P", "o", "P">>
    /\ 1 \in SubstringHits(Lower(arg))
    /\ out = ElectronicGenre

\* C19: every individual lookup stands alone: the resolution comes to its
\* end, and it ends successfully with an index that lists, besides the
\* baseline, exactly the artists whose lookup succeeded, each with the genre
\* strings the remote holds; every identifier outside the baseline was
\* looked up, the failed ones are absent and counted.
C19_LookupsIsolated ==
    /\ <>(phase = "resolved")
    /\ [](phase = "resolved" =>
          LET wanted == arg.artistIds \ DOMAIN arg.baseline IN
          /\ out.status = "ok"
          /\ out.asked = wanted
          /\ DOMAIN out.index = DOMAIN arg.baseline \cup (wanted \ arg.failing)
          /\ \A a \in wanted \ arg.failing : out.index[a] = RemoteGenres(a)
          /\ \A a \in DOMAIN arg.baseline : out.index[a] = arg.baseline[a]
          /\ out.failures = Cardinality(wanted \cap arg.failing))

\* C19 happens: two lookups were asked for, the one for Y failed, and the
\* index that was returned lists Z alone.
C19_Witness ==
    /\ phase = "resolved"
    /\ arg.artistIds = {"Y", "Z"}
    /\ arg.failing = {"Y"}
    /\ out.status = "ok"
    /\ DOMAIN out.index = {"Z"}
    /\ out.failures = 1

\* the URIs of the POSTs made so far, in the order sent
SentUris == Flatten([k \in 1..Len(out.requests) |-> out.requests[k].uris])

\* C20: every POST carries at least one and at most 100 URIs; the URIs sent
\* so far are, in order, the first URIs of the input; when the function
\* returns they are the whole input, so nothing was dropped, repeated or
\* moved; an empty input sends no POST.
C20_BatchesPartitionInput ==
    /\ \A k \in 1..Len(out.requests) :
          Len(out.requests[k].uris) >= 1 /\ Len(out.requests[k].uris) <= BatchSize
    /\ Len(SentUris) <= Len(arg.uris)
    /\ SentUris = SubSeq(arg.uris, 1, Len(SentUris))
    /\ phase = "add_returned" => SentUris = arg.uris
    /\ arg.uris = <<>> => out.requests = <<>>

\* C20 happens: a list of 201 URIs with repeated tracks went out in three
\* POSTs, the last one carrying the one URI left.
C20_Witness ==
    /\ phase = "add_returned"
    /\ Len(arg.uris) = 2 * BatchSize + 1
    /\ arg.uris[1] = arg.uris[4]
    /\ Len(out.requests) = 3
    /\ Len(out.requests[2].uris) = BatchSize
    /\ out.requests[3].uris = <<arg.uris[2 * BatchSize + 1]>>

\* C20 happens too: the function returned on the empty list without a POST.
C20_WitnessEmpty ==
    phase = "add_returned" /\ arg.uris = <<>> /\ out.requests = <<>>

\* the step in which _ensure_library_loaded returns True to the handler of
\* session s: from its first test or after its rebuild
EnsureReturnsTrue(s) ==
    pc[s] \in {"ensure", "ens_write_full"} /\ pc'[s] = "chat_reply"

\* C21: when _ensure_library_loaded returns True, library_cache and
\* full_library_cache both hold an entry under the user id the handler
\* passed in, which is the id the handler looks up next.
C21_EnsuredKeyIsCached ==
    [][\A s \in Sessions :
          EnsureReturnsTrue(s)
          => /\ loc'[s].key = loc[s].key
             /\ loc[s].key \in DOMAIN library_cache'
             /\ loc[s].key \in DOMAIN full_library_cache']_vars

\* the user id under which the handler of session s reads the cache in the
\* step that answers its request
KeyRead(s) == IF pc[s] = "chat_reply" THEN loc[s].key ELSE session_uid[s]

\* C22: a chat, creator-chat or song-details request that is answered from
\* a cached library reads the entry of the user whose token the session
\* holds.
C22_ServedOwnLibrary ==
    [][\A s \in Sessions :
          (pc'[s] = "responded" /\ pc[s] # "responded"
           /\ resp'[s].op \in {"chat", "creator", "song_details"}
           /\ resp'[s].code = 200)
          => KeyRead(s) = token[s]]_vars

\* C22 happens: with the libraries of both users cached, a session of u1
\* and a session of u2 have each had a chat answered, each from the library
\* of its own user: u1's holds songs, u2's is empty.
C22_Witness ==
    \E s, t \in Sessions :
       /\ InBoth("u1") /\ InBoth("u2")
       /\ library_cache["u1"].total > 0 /\ library_cache["u2"].total = 0
       /\ token[s] = "u1" /\ token[t] = "u2"
       /\ pc[s] = "responded" /\ resp[s].op = "chat" /\ resp[s].code = 200
       /\ resp[s].total = library_cache["u1"].total
       /\ pc[t] = "responded" /\ resp[t].op = "chat" /\ resp[t].code = 200
       /\ resp[t].total = 0

\* no request is in flight: every handler has returned
Quiescent == \A s \in Sessions : pc[s] \in {"idle", "responded"}

\* C23: whenever no request is in flight, the two caches hold entries for
\* the same user ids.
C23_CachesPaired ==
    Quiescent => DOMAIN library_cache = DOMAIN full_library_cache

\* the step is the request of session s to song_details_api or to
\* create_playlist_api, from its arrival to its answer
QueryStep(s) ==
    /\ pc[s] = "idle" /\ pc'[s] = "responded"
    /\ resp'[s].op \in {"song_details", "create_playlist"}

\* C24: a song-details or create-playlist request, whatever its answer,
\* leaves library_cache and full_library_cache as they were: no entry is
\* added, removed or changed, and no cached track is.
C24_QueriesLeaveCaches ==
    [][\A s \in Sessions :
          QueryStep(s) => /\ library_cache' = library_cache
                          /\ full_library_cache' = full_library_cache]_vars

\* C24 happens: with u1's library cached, one session has its song details
\* served from it while another has had a playlist created.
C24_Witness ==
    /\ InBoth("u1")
    /\ \E s, t \in Sessions :
          /\ s # t
          /\ pc[s] = "responded" /\ resp[s].op = "song_details"
          /\ resp[s].code = 200 /\ resp[s].total = 2
          /\ pc[t] = "responded" /\ resp[t].op = "create_playlist" /\ resp[t].code = 200

\* the calls of the request that were answered with an error status
FailedCalls == {k \in 1..Len(out.requests) : ~out.requests[k].ok}

\* the URIs the request asks for, from its body
AskedUris ==
    LET ids == arg.body.data.song_ids IN [k \in 1..Len(ids) |-> Uri(ids[k])]

\* C25: the create call is the first remote call and every other one is an
\* append; a call that failed is the last call made; a request with a
\* failed call is answered 500; and a request answered 200 made a create
\* call and append calls that all succeeded and that carried, in order,
\* every URI asked for.
C25_CreateThenBatches ==
    /\ \A k \in 1..Len(out.requests) :
          out.requests[k].api = IF k = 1 THEN "create" ELSE "add"
    /\ \A k \in FailedCalls : k = Len(out.requests)
    /\ (phase = "responded" /\ FailedCalls # {}) => out.code = 500 /\ ~out.success
    /\ (phase = "responded" /\ out.code = 200)
       => /\ Len(out.requests) >= 2
          /\ FailedCalls = {}
          /\ SentUris = AskedUris

\* C25 happens: a request for MaxUris tracks had its playlist created and
\* its first batch appended, its second batch failed, and it was answered
\* 500 with the third batch never sent.
C25_Witness ==
    /\ phase = "responded"
    /\ out.code = 500
    /\ Len(AskedUris) = MaxUris
    /\ Len(out.requests) = 3
    /\ out.requests[1].api = "create" /\ out.requests[1].ok
    /\ out.requests[2].api = "add" /\ out.requests[2].ok
    /\ out.requests[3].api = "add" /\ ~out.requests[3].ok

\* C25 happens on the good path too: a request for MaxUris tracks is
\* answered 200 after a create call and every batch succeeded.
C25_WitnessSuccess ==
    /\ phase = "responded"
    /\ out.code = 200 /\ out.success
    /\ out.track_count = MaxUris
    /\ Len(out.requests) = 1 + (MaxUris + BatchSize - 1) \div BatchSize
    /\ FailedCalls = {}

\* C25 happens when the create call fails: the request is answered 500 and
\* no batch is sent.
C25_WitnessCreateFails ==
    /\ phase = "responded"
    /\ out.code = 500
    /\ Len(out.requests) = 1
    /\ ~out.requests[1].ok

====
